---- MODULE Spec2Model ----
(***************************************************************************)
(* The request layer of react-question: createRequest installs a request   *)
(* interceptor (bearer injection, path-variable substitution) and a        *)
(* response interceptor (body normalisation, 401 refresh-and-retry, error  *)
(* reporting) on one axios instance; request() sends a call through it.    *)
(* Every call is a small process; the Token Store (localStorage) and the   *)
(* module-level instance are shared by all calls.                          *)
(***************************************************************************)
EXTENDS Integers, Sequences, FiniteSets, TLC

\* ------------------------------------------------------------------ bounds
NumCalls == 2          \* calls that may be in flight together
MaxSegs == 3           \* segments of a URL template (SpecUrl)

\* ------------------------------------------------------- program constants
UNAUTHORIZED == 401    \* error.response?.status === 401
ApiErrorStatus == 400  \* status of the synthesized ApiError
DefaultErrorCode == 500 \* the code used when there is no status

Calls == 1 .. NumCalls

\* ---------------------------------------------------------------- strings
\* URLs are sequences of one-character strings; messages are TLA+ strings.
NoMsg == "<undefined>"     \* an absent (undefined) message
NoData == "<undefined>"    \* an absent data field
NoToken == <<>>            \* localStorage.getItem(...) === null

\* JavaScript truthiness of an optional string.
Truthy(m) == m # NoMsg /\ m # ""

AccessTok(k) == <<"access", k>>
RefreshTok(k) == <<"refresh", k>>

\* ----------------------------------------------------------------- headers
NoHeader == [scheme |-> "none", cred |-> NoToken]
CallerHeader == [scheme |-> "Basic", cred |-> <<"caller", 0>>]
Bearer(t) == [scheme |-> "Bearer", cred |-> t]

\* ------------------------------------------------------------- Token Store
\* LocalStorageTokenManager: two independent slots, no cache.
setRefreshTokenDropped(s, t) == s
removeRefreshTokenKept(s) == s
removeTokenKept(s) == s
setTokenDropped(s, t) == s

getToken(s) == s.access
getRefreshToken(s) == s.refresh
setToken(s, t) == [s EXCEPT !.access = t]
setRefreshToken(s, t) == [s EXCEPT !.refresh = t]
removeToken(s) == [s EXCEPT !.access = NoToken]
removeRefreshToken(s) == [s EXCEPT !.refresh = NoToken]

EmptyStore == [access |-> NoToken, refresh |-> NoToken]

\* ------------------------------------------------- path-variable handling
\* Index of the first occurrence of pat in s at or after position i, 0 if none.
RECURSIVE IndexFrom(_, _, _)
IndexFrom(s, pat, i) ==
  IF i + Len(pat) - 1 > Len(s) THEN 0
  ELSE IF SubSeq(s, i, i + Len(pat) - 1) = pat THEN i
  ELSE IndexFrom(s, pat, i + 1)

IndexOf(s, pat) == IndexFrom(s, pat, 1)

\* GetSubstitution of String.prototype.replace for a string pattern: "$$",
\* "$&", "$`" and "$'" are expanded, everything else is literal.
RECURSIVE GetSubstitution(_, _, _, _)
GetSubstitution(matched, before, after, repl) ==
  IF repl = <<>> THEN <<>>
  ELSE IF Head(repl) = "$" /\ Len(repl) >= 2
    THEN LET n == repl[2]
             rest == SubSeq(repl, 3, Len(repl))
         IN  IF n = "$" THEN <<"$">> \o GetSubstitution(matched, before, after, rest)
             ELSE IF n = "&" THEN matched \o GetSubstitution(matched, before, after, rest)
             ELSE IF n = "`" THEN before \o GetSubstitution(matched, before, after, rest)
             ELSE IF n = "'" THEN after \o GetSubstitution(matched, before, after, rest)
             ELSE <<"$">> \o GetSubstitution(matched, before, after, Tail(repl))
  ELSE <<Head(repl)>> \o GetSubstitution(matched, before, after, Tail(repl))

\* url.replace(pattern, replacement) with a string pattern: first occurrence only.
StringReplaceFirstOnly(s, pat, repl) ==
  LET i == IndexOf(s, pat)
  IN  IF i = 0 THEN s
      ELSE LET before == SubSeq(s, 1, i - 1)
               after == SubSeq(s, i + Len(pat), Len(s))
           IN  before \o GetSubstitution(pat, before, after, repl) \o after

StringReplace(s, pat, repl) == StringReplaceFirstOnly(s, pat, repl)

Placeholder(key) == <<"{">> \o key \o <<"}">>

\* Object.entries(pathVariables).forEach(([key, value]) => url = url.replace(...))
RECURSIVE SubstitutePathVariables(_, _)
SubstitutePathVariables(url, entries) ==
  IF entries = <<>> THEN url
  ELSE SubstitutePathVariables(
         StringReplace(url, Placeholder(Head(entries).key), Head(entries).value),
         Tail(entries))

NoPathVariables == <<[key |-> <<>>, value |-> <<>>]>>   \* pathVariables undefined

RequestInterceptorIgnoringIgnoreAuth(config, token) ==
  LET withAuth ==
        IF token # NoToken THEN [config EXCEPT !.header = Bearer(token)] ELSE config
  IN  IF config.pathVariables # NoPathVariables
        THEN [withAuth EXCEPT !.url = SubstitutePathVariables(config.url, config.pathVariables)]
        ELSE withAuth

\* The request interceptor applied to a config, with the access token the
\* store holds when it runs.
RequestInterceptor(config, token) ==
  LET withAuth ==
        IF ~config.ignoreAuth /\ token # NoToken
          THEN [config EXCEPT !.header = Bearer(token)]
          ELSE config
  IN  IF config.pathVariables # NoPathVariables
        THEN [withAuth EXCEPT !.url = SubstitutePathVariables(config.url, config.pathVariables)]
        ELSE withAuth

\* --------------------------------------------------------- values in flight
NoCode == 0      \* an absent errorCode
NoStatus == 0    \* error.response is undefined

\* The body of a transport response seen as a Response<T>.
Body(r) ==
  [success |-> r.success, data |-> r.data, errorCode |-> NoCode, errorMessage |-> r.bodyMsg]

AxiosError(r) ==
  [name |-> "AxiosError", status |-> r.status, bodyMsg |-> r.bodyMsg, message |-> r.message]

\* new Error(data.errorMessage) with name 'ApiError' and response {status: 400, data}.
ApiError(m) ==
  [name |-> "ApiError", status |-> ApiErrorStatus, bodyMsg |-> m,
   message |-> IF m = NoMsg THEN "" ELSE m]

NotInitializedError ==
  [name |-> "Error", status |-> NoStatus, bodyMsg |-> NoMsg,
   message |-> "Request instance not initialized. Call createRequest first."]

NoRefreshTokenError ==
  [name |-> "Error", status |-> NoStatus, bodyMsg |-> NoMsg,
   message |-> "No refresh token available"]

\* What the external refresh operation rejects with.
RefreshError ==
  [name |-> "RefreshError", status |-> NoStatus, bodyMsg |-> NoMsg,
   message |-> "refresh rejected"]

NoOutcome == [kind |-> "none"]
Returned(v) == [kind |-> "returned", value |-> v]
Thrown(e) == [kind |-> "thrown", error |-> e]

FulfilledPassThrough(r) == Returned(Body(r))

\* Fulfilled handler: a success:false body throws, a success:true body is returned.
FulfilledOutcome(r) ==
  IF ~Body(r).success THEN Thrown(ApiError(Body(r).errorMessage))
  ELSE Returned(Body(r))

\* ------------------------------------------------------ generic error path
TransportMessageOnly(e) == e.message

\* error.response?.data?.errorMessage || error.message
BestMessage(e) == IF Truthy(e.bodyMsg) THEN e.bodyMsg ELSE e.message

ErrorCodeAlwaysDefault(e) == DefaultErrorCode

\* error.response?.status || 500
ErrorCode(e) == IF e.status # NoStatus THEN e.status ELSE DefaultErrorCode

FailureResponse(e) ==
  [success |-> FALSE, data |-> NoData, errorCode |-> ErrorCode(e),
   errorMessage |-> BestMessage(e)]

ReportAlways(config, e, log) == Append(log, BestMessage(e))

\* if (!originalRequest.silentError) errorHandler.showError(...)
Report(config, e, log) == IF config.silentError THEN log ELSE Append(log, BestMessage(e))

\* if (originalRequest.throwError) throw error; return {success: false, ...}
Settle(config, e) == IF config.throwError THEN Thrown(e) ELSE Returned(FailureResponse(e))

ShouldRefreshEvery401(config, e) == e.status = UNAUTHORIZED
ShouldRefreshNever(config, e) == FALSE

\* error.response?.status === 401 && !originalRequest._retry
ShouldRefresh(config, e) == e.status = UNAUTHORIZED /\ ~config.retry

NeverUninitialized(inst) == FALSE

\* if (!requestInstance)
Uninitialized(inst) == ~inst

\* ------------------------------------------------------------------ inputs
Flags == [ignoreAuth : BOOLEAN, silentError : BOOLEAN, throwError : BOOLEAN]

UserUrl == <<"/", "u", "/", "{", "a", "}">>
PlainUrl == <<"/", "p">>
UrlCases ==
  { [url |-> UserUrl, pathVariables |-> <<[key |-> <<"a">>, value |-> <<"1">>]>>] }

Headers == {NoHeader, CallerHeader}

Config(f, u, h) ==
  [ignoreAuth |-> f.ignoreAuth, silentError |-> f.silentError, throwError |-> f.throwError,
   url |-> u.url, pathVariables |-> u.pathVariables, header |-> h, retry |-> FALSE]

Configs == {Config(f, u, h) : f \in Flags, u \in UrlCases, h \in Headers}

\* Call 1 is drawn from every input; the calls running beside it are plain
\* authenticated calls, enough to race it on the Token Store.
PeerConfigs ==
  {Config([ignoreAuth |-> FALSE, silentError |-> FALSE, throwError |-> FALSE],
          [url |-> PlainUrl, pathVariables |-> NoPathVariables], NoHeader)}
ConfigsOf(c) == IF c = 1 THEN Configs ELSE PeerConfigs

IdleConfig ==
  Config([ignoreAuth |-> FALSE, silentError |-> FALSE, throwError |-> FALSE],
         [url |-> <<>>, pathVariables |-> NoPathVariables], NoHeader)

FulfilledResponses ==
  { [ok |-> TRUE, status |-> st, success |-> TRUE, data |-> "d", bodyMsg |-> NoMsg,
     message |-> NoMsg] : st \in {200, 201} }
  \cup
  { [ok |-> TRUE, status |-> st, success |-> FALSE, data |-> NoData, bodyMsg |-> m,
     message |-> NoMsg] : st \in {200, 201}, m \in {"biz", NoMsg} }

RejectedResponses ==
  { [ok |-> FALSE, status |-> st, success |-> FALSE, data |-> NoData, bodyMsg |-> m,
     message |-> "Request failed"] : st \in {UNAUTHORIZED, 500}, m \in {NoMsg, "", "denied"} }
  \cup
  { [ok |-> FALSE, status |-> NoStatus, success |-> FALSE, data |-> NoData,
     bodyMsg |-> NoMsg, message |-> m] : m \in {"Network Error", ""} }

FulfilledOf(c) ==
  IF c = 1 THEN FulfilledResponses
  ELSE {r \in FulfilledResponses : r.status = 200 /\ r.success}
RejectedOf(c) ==
  IF c = 1 THEN RejectedResponses
  ELSE {r \in RejectedResponses : r.status = UNAUTHORIZED /\ r.bodyMsg = NoMsg}

\* Results of the external refresh operation awaited by call c.
RefreshResults(c) ==
  { [kind |-> "success", access |-> AccessTok(c), refresh |-> RefreshTok(c)],
    [kind |-> "failure", access |-> NoToken, refresh |-> NoToken],
    [kind |-> "rejected", access |-> NoToken, refresh |-> NoToken] }

InitialStores ==
  [access : {NoToken, AccessTok(0)}, refresh : {NoToken, RefreshTok(0)}]

\* ------------------------------------------------------------------- state
VARIABLES
  initialized,  \* requestInstance has been created
  store,        \* Token Store: [access, refresh]
  pc,           \* per call: idle, intercept, inflight, refreshing, done
  cfg,          \* per call: the config object travelling with the call
  sends,        \* per call: times handed to the transport
  refreshes,    \* per call: invocations of the refresh operation
  reads,        \* per call: reads of Token Store
  resps,        \* per call: the transport responses handled, in order
  rres,         \* per call: how the refresh attempt ended
  outcome,      \* per call: what the caller got
  shown         \* per call: messages passed to errorHandler.showError

vars == <<initialized, store, pc, cfg, sends, refreshes, reads, resps, rres, outcome, shown>>

Init ==
  /\ initialized = FALSE
  /\ store \in InitialStores
  /\ pc = [c \in Calls |-> "idle"]
  /\ cfg = [c \in Calls |-> IdleConfig]
  /\ sends = [c \in Calls |-> 0]
  /\ refreshes = [c \in Calls |-> 0]
  /\ reads = [c \in Calls |-> 0]
  /\ resps = [c \in Calls |-> <<>>]
  /\ rres = [c \in Calls |-> "none"]
  /\ outcome = [c \in Calls |-> NoOutcome]
  /\ shown = [c \in Calls |-> <<>>]

\* createRequest(options)
CreateRequest ==
  /\ initialized' = TRUE
  /\ UNCHANGED <<store, pc, cfg, sends, refreshes, reads, resps, rres, outcome, shown>>

\* request(args)
Request(c) ==
  /\ pc[c] = "idle"
  /\ \E config \in ConfigsOf(c) :
       IF Uninitialized(initialized)
         THEN /\ outcome' = [outcome EXCEPT ![c] = Thrown(NotInitializedError)]
              /\ pc' = [pc EXCEPT ![c] = "done"]
              /\ cfg' = cfg
         ELSE /\ cfg' = [cfg EXCEPT ![c] = config]
              /\ pc' = [pc EXCEPT ![c] = "intercept"]
              /\ outcome' = outcome
  /\ UNCHANGED <<initialized, store, sends, refreshes, reads, resps, rres, shown>>

\* The request interceptor runs and the call goes to the transport.
Intercept(c) ==
  /\ pc[c] = "intercept"
  /\ cfg' = [cfg EXCEPT ![c] = RequestInterceptor(@, getToken(store))]
  /\ reads' = [reads EXCEPT ![c] = IF cfg[c].ignoreAuth THEN @ ELSE @ + 1]
  /\ sends' = [sends EXCEPT ![c] = @ + 1]
  /\ pc' = [pc EXCEPT ![c] = "inflight"]
  /\ UNCHANGED <<initialized, store, refreshes, resps, rres, outcome, shown>>

\* Response interceptor, fulfilled handler.
ResponseFulfilled(c) ==
  /\ pc[c] = "inflight"
  /\ \E r \in FulfilledOf(c) :
       /\ resps' = [resps EXCEPT ![c] = Append(@, r)]
       /\ outcome' = [outcome EXCEPT ![c] = FulfilledOutcome(r)]
  /\ pc' = [pc EXCEPT ![c] = "done"]
  /\ UNCHANGED <<initialized, store, cfg, sends, refreshes, reads, rres, shown>>

\* Response interceptor, rejected handler, up to its first await or its end.
ResponseRejected(c) ==
  /\ pc[c] = "inflight"
  /\ \E r \in RejectedOf(c) :
       LET e == AxiosError(r) IN
       /\ resps' = [resps EXCEPT ![c] = Append(@, r)]
       /\ IF ShouldRefresh(cfg[c], e)
            THEN /\ cfg' = [cfg EXCEPT ![c].retry = TRUE]
                 /\ reads' = [reads EXCEPT ![c] = @ + 1]
                 /\ shown' = shown
                 /\ IF getRefreshToken(store) = NoToken
                      THEN \* throw inside try: the catch clears and rethrows
                           /\ store' = removeRefreshToken(removeToken(store))
                           /\ rres' = [rres EXCEPT ![c] = "notoken"]
                           /\ outcome' = [outcome EXCEPT ![c] = Thrown(NoRefreshTokenError)]
                           /\ pc' = [pc EXCEPT ![c] = "done"]
                           /\ refreshes' = refreshes
                      ELSE \* await refreshToken({refreshToken})
                           /\ refreshes' = [refreshes EXCEPT ![c] = @ + 1]
                           /\ pc' = [pc EXCEPT ![c] = "refreshing"]
                           /\ UNCHANGED <<store, rres, outcome>>
            ELSE /\ shown' = [shown EXCEPT ![c] = Report(cfg[c], e, @)]
                 /\ outcome' = [outcome EXCEPT ![c] = Settle(cfg[c], e)]
                 /\ pc' = [pc EXCEPT ![c] = "done"]
                 /\ UNCHANGED <<store, cfg, reads, refreshes, rres>>
  /\ UNCHANGED <<initialized, sends>>

\* The awaited refresh operation settles and the rejected handler resumes.
RefreshSettles(c) ==
  /\ pc[c] = "refreshing"
  /\ \E res \in RefreshResults(c) :
       LET e == AxiosError(resps[c][Len(resps[c])]) IN
       /\ rres' = [rres EXCEPT ![c] = res.kind]
       /\ IF res.kind = "rejected"
            THEN \* catch (refreshError)
                 /\ store' = removeRefreshToken(removeToken(store))
                 /\ outcome' = [outcome EXCEPT ![c] = Thrown(RefreshError)]
                 /\ pc' = [pc EXCEPT ![c] = "done"]
                 /\ shown' = shown
            ELSE IF res.kind = "success"
            THEN \* setToken, setRefreshToken, return requestInstance(originalRequest)
                 /\ store' = setRefreshToken(setToken(store, res.access), res.refresh)
                 /\ pc' = [pc EXCEPT ![c] = "intercept"]
                 /\ UNCHANGED <<outcome, shown>>
            ELSE \* response.success is false: falls out of the try block
                 /\ shown' = [shown EXCEPT ![c] = Report(cfg[c], e, @)]
                 /\ outcome' = [outcome EXCEPT ![c] = Settle(cfg[c], e)]
                 /\ pc' = [pc EXCEPT ![c] = "done"]
                 /\ store' = store
  /\ UNCHANGED <<initialized, cfg, sends, refreshes, reads, resps>>

Next ==
  \/ CreateRequest
  \/ \E c \in Calls : Request(c)
  \/ \E c \in Calls : Intercept(c)
  \/ \E c \in Calls : ResponseFulfilled(c)
  \/ \E c \in Calls : ResponseRejected(c)
  \/ \E c \in Calls : RefreshSettles(c)

Spec == Init /\ [][Next]_vars

\* Stores a login or a logout leaves behind: both slots set or both empty.
PairedStores ==
  {EmptyStore, [access |-> AccessTok(0), refresh |-> RefreshTok(0)]}

InitPaired == Init /\ store \in PairedStores

SpecPaired == InitPaired /\ [][Next]_vars

\* A step of some call that is under way: an interceptor run by the event
\* loop, an answer of the transport, or the refresh operation settling.
Progress ==
  \E c \in Calls :
    \/ Intercept(c)
    \/ ResponseFulfilled(c)
    \/ ResponseRejected(c)
    \/ RefreshSettles(c)

\* The event loop runs every queued interceptor; the transport answers every
\* send (at the latest by its timeout) and the refresh operation settles.
Fairness == WF_vars(Progress)

SpecLive == Init /\ [][Next]_vars /\ Fairness

\* ------------------------------------------- the request interceptor alone
\* URL templates of at most MaxSegs segments; "{a}", "{b}", "{c}" are placeholders.
Segments ==
  { <<"/">>, <<"x">>, <<"{", "a", "}">>, <<"{", "b", "}">>, <<"{", "c", "}">> }

RECURSIVE Templates(_)
Templates(n) ==
  IF n = 0 THEN {<<>>}
  ELSE Templates(n - 1) \cup {t \o s : t \in Templates(n - 1), s \in Segments}

PathKeys == {<<"a">>, <<"b">>}
PathValues == {<<"1">>, <<"4", "2">>}    \* String(value)
PathEntries == [key : PathKeys, value : PathValues]

\* pathVariables objects: undefined, {}, and one or two entries in insertion order.
PathVariableInputs ==
  {NoPathVariables, <<>>}
  \cup {<<e>> : e \in PathEntries}
  \cup {<<p[1], p[2]>> : p \in {q \in PathEntries \X PathEntries : q[1].key # q[2].key}}

UrlConfigs ==
  {Config([ignoreAuth |-> FALSE, silentError |-> FALSE, throwError |-> FALSE],
          [url |-> t, pathVariables |-> pv], NoHeader) :
     t \in Templates(MaxSegs), pv \in PathVariableInputs}

\* Call 1 has been handed to the instance with any template and mapping.
InitUrl ==
  /\ initialized = TRUE
  /\ store = [access |-> AccessTok(0), refresh |-> RefreshTok(0)]
  /\ pc = [c \in Calls |-> IF c = 1 THEN "intercept" ELSE "idle"]
  /\ cfg \in {[c \in Calls |-> IF c = 1 THEN k ELSE IdleConfig] : k \in UrlConfigs}
  /\ sends = [c \in Calls |-> 0]
  /\ refreshes = [c \in Calls |-> 0]
  /\ reads = [c \in Calls |-> 0]
  /\ resps = [c \in Calls |-> <<>>]
  /\ rres = [c \in Calls |-> "none"]
  /\ outcome = [c \in Calls |-> NoOutcome]
  /\ shown = [c \in Calls |-> <<>>]

NextUrl == \E c \in Calls : Intercept(c)

SpecUrl == InitUrl /\ [][NextUrl]_vars

\* ================================================================== claims
Last(c) == resps[c][Len(resps[c])]
Is401(r) == ~r.ok /\ r.status = UNAUTHORIZED
Done(c) == pc[c] = "done"

\* C1: over the life of one call the refresh operation is invoked at most
\* once and the call is sent at most twice; a 401 on the first send starts the
\* one refresh attempt, a 401 on the re-sent call ends the call with no
\* further refresh, whatever the flags.
C1_SingleRefreshAndRetry ==
  \A c \in Calls :
    /\ refreshes[c] <= 1
    /\ sends[c] <= 2
    /\ Len(resps[c]) <= sends[c]
    /\ (sends[c] = 2 => refreshes[c] = 1)
    /\ (Len(resps[c]) >= 1 /\ Is401(resps[c][1]))
         => (cfg[c].retry /\ (pc[c] = "refreshing" \/ rres[c] # "none"))
    /\ (Len(resps[c]) = 2 /\ Is401(resps[c][2])) => (Done(c) /\ refreshes[c] = 1)

C1_Witness ==
  \E c \in Calls :
    Done(c) /\ Len(resps[c]) = 2 /\ Is401(resps[c][2]) /\ refreshes[c] = 1 /\ sends[c] = 2

\* C2: when the refresh of a call returns success with {access, refresh}, the
\* step that handles it leaves exactly that pair in Token Store and re-issues
\* the call, which has been sent once and is sent exactly once more; the
\* caller gets the outcome of the re-sent call.
C2_RefreshSuccessStep ==
  \A c \in Calls :
    (rres[c] = "none" /\ rres'[c] = "success")
      => /\ store' = [access |-> AccessTok(c), refresh |-> RefreshTok(c)]
         /\ pc'[c] = "intercept"
         /\ sends[c] = 1 /\ sends'[c] = 1
         /\ outcome'[c] = NoOutcome

C2_ResentOutcome ==
  \A c \in Calls :
    (rres[c] = "success" /\ Done(c))
      => /\ sends[c] = 2 /\ Len(resps[c]) = 2
         /\ outcome[c] = IF Last(c).ok THEN FulfilledOutcome(Last(c))
                          ELSE Settle(cfg[c], AxiosError(Last(c)))

C2_RefreshSuccessRetries == [][C2_RefreshSuccessStep]_vars /\ []C2_ResentOutcome

C2_Witness ==
  \E c \in Calls :
    /\ rres[c] = "success" /\ Done(c) /\ Is401(resps[c][1])
    /\ Last(c).ok /\ Last(c).success /\ outcome[c] = Returned(Body(Last(c)))

\* C3: when the refresh operation rejects, both tokens are removed, the call
\* is not re-sent, showError is not invoked and the rejection is thrown to the
\* caller, for every combination of silentError and throwError.
C3_RejectedStep ==
  \A c \in Calls :
    (rres[c] = "none" /\ rres'[c] = "rejected")
      => /\ store' = EmptyStore
         /\ outcome'[c] = Thrown(RefreshError)
         /\ pc'[c] = "done"
         /\ sends'[c] = sends[c]
         /\ shown'[c] = <<>>

C3_RejectedFinal ==
  \A c \in Calls :
    rres[c] = "rejected"
      => Done(c) /\ sends[c] = 1 /\ shown[c] = <<>> /\ outcome[c] = Thrown(RefreshError)

C3_RefreshRejectionPropagates == [][C3_RejectedStep]_vars /\ []C3_RejectedFinal

C3_Witness ==
  \E c \in Calls :
    /\ rres[c] = "rejected" /\ cfg[c].silentError /\ ~cfg[c].throwError
    /\ store = EmptyStore /\ outcome[c] = Thrown(RefreshError)

\* C4: when the refresh operation resolves with success false, both tokens
\* are removed and the failure is thrown to the caller, not reported through
\* showError and not returned as a failure Response.
C4_ResolvedFailureStep ==
  \A c \in Calls :
    (rres[c] = "none" /\ rres'[c] = "failure")
      => /\ store' = EmptyStore
         /\ outcome'[c].kind = "thrown"
         /\ shown'[c] = <<>>

C4_RefreshFailureClearsAndThrows == [][C4_ResolvedFailureStep]_vars

\* C5: a transport failure that is not a 401 on a not-yet-retried call is
\* reported through showError exactly when silentError is unset, with the
\* body errorMessage when there is a non-empty one and else the transport
\* message; it is thrown when throwError is set and otherwise returned as
\* {success: false, errorCode: status or 500, errorMessage: that message}.
C5_Message(r) == IF r.bodyMsg # NoMsg /\ r.bodyMsg # "" THEN r.bodyMsg ELSE r.message

C5_GenericFailure ==
  \A c \in Calls :
    (Done(c) /\ resps[c] # <<>> /\ ~Last(c).ok /\ rres[c] \in {"none", "success"})
      => /\ shown[c] = IF cfg[c].silentError THEN <<>> ELSE <<C5_Message(Last(c))>>
         /\ outcome[c] =
              IF cfg[c].throwError
                THEN Thrown([name |-> "AxiosError", status |-> Last(c).status,
                             bodyMsg |-> Last(c).bodyMsg, message |-> Last(c).message])
                ELSE Returned([success |-> FALSE, data |-> NoData,
                               errorCode |-> IF Last(c).status = NoStatus THEN 500
                                             ELSE Last(c).status,
                               errorMessage |-> C5_Message(Last(c))])

C5_Witness ==
  \E c \in Calls :
    /\ Done(c) /\ Len(resps[c]) = 1 /\ ~Last(c).ok /\ Last(c).status = 500
    /\ Last(c).bodyMsg = "denied"
    /\ cfg[c].silentError /\ ~cfg[c].throwError
    /\ shown[c] = <<>> /\ outcome[c].kind = "returned"

\* C6: a fulfilled response whose body has success false ends the call in a
\* thrown ApiError with status 400 and the body's errorMessage, whatever the
\* transport status and the flags; a body with success true is returned as is.
C6_BusinessFailureThrows ==
  \A c \in Calls :
    (Done(c) /\ resps[c] # <<>> /\ Last(c).ok)
      => IF Last(c).success
           THEN outcome[c] =
                  Returned([success |-> TRUE, data |-> Last(c).data, errorCode |-> NoCode,
                            errorMessage |-> Last(c).bodyMsg])
           ELSE /\ outcome[c].kind = "thrown"
                /\ outcome[c].error.name = "ApiError"
                /\ outcome[c].error.status = 400
                /\ outcome[c].error.bodyMsg = Last(c).bodyMsg

C6_Witness ==
  \E c \in Calls :
    /\ Done(c) /\ resps[c] # <<>> /\ Last(c).ok /\ ~Last(c).success /\ Last(c).status = 201
    /\ cfg[c].silentError /\ ~cfg[c].throwError /\ outcome[c].kind = "thrown"

\* C7: every failure of a sent call other than a refresh failure reaches the
\* user as the flags say: a failure Response when throwError is unset, and
\* showError invoked exactly when silentError is unset.
C7_Failed(c) ==
  /\ Done(c) /\ sends[c] >= 1 /\ rres[c] \in {"none", "success"}
  /\ ~(outcome[c].kind = "returned" /\ outcome[c].value.success)

C7_FlagsAloneSelect ==
  \A c \in Calls :
    C7_Failed(c)
      => /\ (~cfg[c].throwError => outcome[c].kind = "returned")
         /\ (shown[c] # <<>> <=> ~cfg[c].silentError)

\* C8: at every send, a call with ignoreAuth unset leaves the interceptor
\* with the header Bearer t for the access token t the store holds at that
\* moment; with ignoreAuth set or no stored access token its header is left
\* as it was.
C8_InterceptStep ==
  \A c \in Calls :
    sends'[c] = sends[c] + 1
      => cfg'[c].header =
           IF ~cfg[c].ignoreAuth /\ store.access # NoToken
             THEN [scheme |-> "Bearer", cred |-> store.access]
             ELSE cfg[c].header

C8_BearerFromStore == [][C8_InterceptStep]_vars

C8_Witness ==
  \E c \in Calls :
    /\ sends[c] = 2 /\ ~cfg[c].ignoreAuth
    /\ cfg[c].header = [scheme |-> "Bearer", cred |-> AccessTok(c)]
    /\ \E d \in Calls : sends[d] >= 1 /\ cfg[d].ignoreAuth /\ cfg[d].header = CallerHeader

\* C9: the outgoing URL is the template with every occurrence of {key}
\* replaced by the mapped value, for each key of the mapping, and every other
\* placeholder left verbatim.
RECURSIVE C9_Lookup(_, _)
C9_Lookup(entries, key) ==
  IF entries = <<>> THEN <<FALSE, <<>>>>
  ELSE IF Head(entries).key = key THEN <<TRUE, Head(entries).value>>
  ELSE C9_Lookup(Tail(entries), key)

RECURSIVE C9_EveryOccurrence(_, _)
C9_EveryOccurrence(url, entries) ==
  IF url = <<>> THEN <<>>
  ELSE IF Len(url) >= 3 /\ url[1] = "{" /\ url[3] = "}" /\ C9_Lookup(entries, <<url[2]>>)[1]
    THEN C9_Lookup(entries, <<url[2]>>)[2]
         \o C9_EveryOccurrence(SubSeq(url, 4, Len(url)), entries)
  ELSE <<Head(url)>> \o C9_EveryOccurrence(Tail(url), entries)

C9_Expected(config) ==
  IF config.pathVariables = NoPathVariables THEN config.url
  ELSE C9_EveryOccurrence(config.url, config.pathVariables)

C9_UrlStep ==
  \A c \in Calls : sends'[c] = sends[c] + 1 => cfg'[c].url = C9_Expected(cfg[c])

C9_EveryPlaceholderReplaced == [][C9_UrlStep]_vars

\* C10: a request made before createRequest fails with the not-initialized
\* error and does nothing else (nothing sent, Token Store untouched, showError
\* not invoked); once createRequest has run, no request fails with that error.
C10_RequestStep ==
  \A c \in Calls :
    (pc[c] = "idle" /\ pc'[c] # "idle")
      => IF ~initialized
           THEN /\ outcome'[c] = Thrown(NotInitializedError)
                /\ pc'[c] = "done"
                /\ store' = store
                /\ sends'[c] = 0 /\ reads'[c] = 0 /\ shown'[c] = <<>>
           ELSE outcome'[c] = NoOutcome

C10_NotInitializedFinal ==
  \A c \in Calls :
    outcome[c] = Thrown(NotInitializedError)
      => Done(c) /\ sends[c] = 0 /\ reads[c] = 0 /\ shown[c] = <<>> /\ resps[c] = <<>>

C10_UninitializedUse ==
  /\ [][C10_RequestStep]_vars
  /\ [][initialized => initialized']_vars
  /\ []C10_NotInitializedFinal

C10_Witness ==
  \E c \in Calls :
    /\ outcome[c] = Thrown(NotInitializedError)
    /\ \E d \in Calls : Done(d) /\ outcome[d].kind = "returned"

OwnPair(c) == [access |-> AccessTok(c), refresh |-> RefreshTok(c)]

\* The step in which call c handles the 401 answer to its first send.
First401Step(c) ==
  /\ Len(resps[c]) = 0 /\ Len(resps'[c]) = 1 /\ Is401(resps'[c][1])

\* C11: refresh attempts are not coalesced: every call that gets a 401 on
\* its first send while a refresh token is stored invokes the refresh
\* operation itself, whatever the other calls are doing, so N such calls make
\* N invocations, and a call's refresh settles with its own result.
C11_OwnRefreshStep ==
  \A c \in Calls :
    (First401Step(c) /\ store.refresh # NoToken)
      => /\ refreshes'[c] = refreshes[c] + 1
         /\ pc'[c] = "refreshing"
         /\ \A d \in Calls \ {c} : refreshes'[d] = refreshes[d] /\ pc'[d] = pc[d]

C11_OwnRefreshCount ==
  \A c \in Calls :
    /\ (pc[c] = "refreshing" => refreshes[c] = 1 /\ rres[c] = "none")
    /\ (rres[c] \in {"success", "failure", "rejected"} => refreshes[c] = 1)

C11_NoCoalescing == [][C11_OwnRefreshStep]_vars /\ []C11_OwnRefreshCount

C11_Witness ==
  \A c \in Calls : pc[c] = "refreshing" /\ refreshes[c] = 1 /\ Is401(resps[c][1])

\* C12: a 401 on a not-yet-retried call with no stored refresh token invokes
\* no refresh and no re-send; the call throws 'No refresh token available'
\* whatever the flags, showError is not invoked, and both slots of Token Store
\* are empty afterwards.
C12_NoTokenStep ==
  \A c \in Calls :
    (First401Step(c) /\ store.refresh = NoToken)
      => /\ refreshes'[c] = 0
         /\ sends'[c] = 1
         /\ pc'[c] = "done"
         /\ outcome'[c] = Thrown(NoRefreshTokenError)
         /\ shown'[c] = <<>>
         /\ store' = EmptyStore

C12_NoTokenFinal ==
  \A c \in Calls :
    rres[c] = "notoken"
      => /\ Done(c) /\ refreshes[c] = 0 /\ sends[c] = 1 /\ shown[c] = <<>>
         /\ outcome[c] = Thrown(NoRefreshTokenError)

C12_MissingRefreshToken == [][C12_NoTokenStep]_vars /\ []C12_NoTokenFinal

C12_Witness ==
  \E c \in Calls :
    /\ rres[c] = "notoken" /\ cfg[c].silentError /\ ~cfg[c].throwError
    /\ cfg[c].header = Bearer(AccessTok(0))
    /\ \A d \in Calls \ {c} : pc[d] = "idle"
    /\ store = EmptyStore

\* C13: when the re-sent call of a refreshed call fails again, with 401 or
\* anything else, the failure is terminal and handled by the ordinary rules
\* (showError unless silentError; thrown if throwError; else a failure
\* Response whose errorCode is the status of the re-send), and the step
\* leaves Token Store as it was.
C13_Message(r) == IF r.bodyMsg # NoMsg /\ r.bodyMsg # "" THEN r.bodyMsg ELSE r.message

C13_ResendFailedStep ==
  \A c \in Calls :
    (Len(resps[c]) = 1 /\ Len(resps'[c]) = 2 /\ ~resps'[c][2].ok)
      => LET r == resps'[c][2] IN
         /\ store' = store
         /\ pc'[c] = "done"
         /\ refreshes'[c] = 1 /\ sends'[c] = 2
         /\ shown'[c] = IF cfg[c].silentError THEN <<>> ELSE <<C13_Message(r)>>
         /\ outcome'[c] =
              IF cfg[c].throwError
                THEN Thrown([name |-> "AxiosError", status |-> r.status,
                             bodyMsg |-> r.bodyMsg, message |-> r.message])
                ELSE Returned([success |-> FALSE, data |-> NoData,
                               errorCode |-> IF r.status = NoStatus THEN 500 ELSE r.status,
                               errorMessage |-> C13_Message(r)])

C13_ResendFailureTerminal == [][C13_ResendFailedStep]_vars

C13_Witness ==
  \E c \in Calls :
    /\ Done(c) /\ Len(resps[c]) = 2 /\ Is401(resps[c][2]) /\ rres[c] = "success"
    /\ store = OwnPair(c)
    /\ ~cfg[c].throwError /\ outcome[c].kind = "returned"
    /\ outcome[c].value.errorCode = 401

\* C14: if the transport answers every send and the refresh operation every
\* invocation, every call that was issued reaches a terminal outcome, exactly
\* one, along Sent -> (Success | Failure) or Sent -> Failure{401} ->
\* RefreshInFlight -> (Sent' -> Success' | Failure'); it enters
\* RefreshInFlight at most once and does not stay there.
C14_PathStep ==
  \A c \in Calls :
    /\ (pc[c] = "idle" => pc'[c] \in {"idle", "intercept", "done"})
    /\ (pc[c] = "intercept" => pc'[c] \in {"intercept", "inflight"})
    /\ (pc[c] = "inflight" => pc'[c] \in {"inflight", "refreshing", "done"})
    /\ (pc[c] = "refreshing" => pc'[c] \in {"refreshing", "intercept", "done"})
    /\ (pc[c] = "done" => pc'[c] = "done" /\ outcome'[c] = outcome[c])
    /\ (pc[c] # "refreshing" /\ pc'[c] = "refreshing"
          => refreshes[c] = 0 /\ sends[c] = 1)

C14_OneOutcome ==
  \A c \in Calls :
    /\ Done(c) <=> outcome[c] # NoOutcome
    /\ outcome[c].kind \in {"none", "returned", "thrown"}

C14_Terminates ==
  /\ \A c \in Calls : (pc[c] \in {"intercept", "inflight", "refreshing"}) ~> Done(c)
  /\ [][C14_PathStep]_vars
  /\ []C14_OneOutcome

C14_Witness ==
  \E c \in Calls :
    /\ Done(c) /\ sends[c] = 2 /\ refreshes[c] = 1 /\ rres[c] = "success"
    /\ Last(c).ok /\ ~Last(c).success /\ outcome[c].kind = "thrown"

\* C15: Token Store changes only inside the refresh sequence: a step that
\* changes it is either the step in which a call's refresh returned success,
\* which writes that refresh's pair, or the step in which a call's refresh
\* attempt failed (no refresh token, or a rejected refresh), which empties it.
C15_StoreStep ==
  store' # store
    => \E c \in Calls :
         /\ rres[c] = "none"
         /\ \/ rres'[c] = "success" /\ store' = OwnPair(c)
            \/ rres'[c] \in {"notoken", "rejected"} /\ store' = EmptyStore

C15_StoreChangesOnlyInRefresh == [][C15_StoreStep]_vars

C15_Witness ==
  /\ store = EmptyStore
  /\ \E c \in Calls : rres[c] = "success"
  /\ \E d \in Calls : rres[d] = "rejected"

\* C16: from a store whose slots are both set or both empty, the store
\* always holds either nothing or the access and refresh token of one source
\* (the initial pair or one refresh response), and a refresh that succeeds
\* overwrites whatever pair is there with its own (last writer wins).
C16_Paired == store = EmptyStore \/ \E k \in 0 .. NumCalls : store = OwnPair(k)

C16_LastWriterStep ==
  \A c \in Calls : (rres[c] = "none" /\ rres'[c] = "success") => store' = OwnPair(c)

C16_PairNeverMixed == []C16_Paired /\ [][C16_LastWriterStep]_vars

C16_Witness ==
  \E c \in Calls : \E d \in Calls \ {c} :
    /\ rres[c] = "success" /\ rres[d] = "success"
    /\ pc[c] = "intercept" /\ Done(d)
    /\ store = OwnPair(c)

\* C17: the re-sent call of a refreshed call (ignoreAuth unset) leaves the
\* interceptor with the bearer of the access token the store holds at that
\* moment, and with no bearer credential when the store holds none.
C17_ResendStep ==
  \A c \in Calls :
    (sends[c] = 1 /\ sends'[c] = 2 /\ ~cfg[c].ignoreAuth)
      => IF store.access # NoToken
           THEN cfg'[c].header = [scheme |-> "Bearer", cred |-> store.access]
           ELSE cfg'[c].header.scheme # "Bearer"

C17_ResendNeverStale == [][C17_ResendStep]_vars

\* C18: for every call showError is invoked at most once, never when the
\* call's silentError is set, and never for a call that ends in a success
\* Response.
C18_ShowErrorAtMostOnce ==
  \A c \in Calls :
    /\ Len(shown[c]) <= 1
    /\ (cfg[c].silentError => shown[c] = <<>>)
    /\ ((outcome[c].kind = "returned" /\ outcome[c].value.success) => shown[c] = <<>>)

C18_Witness ==
  \E c \in Calls :
    /\ Done(c) /\ sends[c] = 2 /\ ~Last(c).ok /\ Len(shown[c]) = 1
    /\ \E d \in Calls : Done(d) /\ sends[d] = 2 /\ Last(d).ok /\ Last(d).success

\* C19: every value a call returns is a well-formed Response: the success
\* variant, or the failure variant with a numeric errorCode and a non-empty
\* errorMessage.
C19_WellFormedResponse ==
  \A c \in Calls :
    outcome[c].kind = "returned"
      => \/ outcome[c].value.success
         \/ /\ outcome[c].value.errorCode # NoCode
            /\ outcome[c].value.errorMessage # NoMsg
            /\ outcome[c].value.errorMessage # ""
====
